---- MODULE Spec2Model ----
(***************************************************************************)
(* PodTrack: the playback-tracking accumulator of SpotifyService.          *)
(*                                                                         *)
(* The model covers the polling loop (startPlaybackTracking, its interval  *)
(* callback, stopPlaybackTracking), the fetch getCurrentlyPlaying and the  *)
(* ledger kept in localStorage under STORAGE_KEY (storeEpisode,            *)
(* updateSessionEnd, clearStoredEpisodes).                                 *)
(*                                                                         *)
(* Time is the millisecond clock behind Date.now() and new Date(); it      *)
(* advances in whole polling periods.  The interval callback is two steps: *)
(* the synchronous prefix up to the await (TimerFire) and the continuation *)
(* after the fetch has returned (FetchReturn), so that callbacks of        *)
(* different timer firings overlap exactly as the code lets them.          *)
(***************************************************************************)
EXTENDS Integers, Sequences, FiniteSets

VARIABLES
    now,              \* the wall clock, in ms
    pollingInterval,  \* the timer handle, NoTimer when not polling
    nextFire,         \* the time at which the interval timer is next due
    lastPollTime,     \* this.lastPollTime
    lastEpisodeId,    \* this.lastEpisodeId
    episodes,         \* the ledger stored under STORAGE_KEY: id -> StoredEpisode
    keyOrder,         \* the ids of the ledger in the order of the stored object's keys
    inflight,         \* callbacks suspended at the await, each with its timeSinceLastPoll
    lastOp,           \* the operation that produced this state, with its inputs
    returned,         \* what getRecentlyPlayedEpisodes has just returned
    storedToken,      \* localStorage 'spotify_token': <<>> or <<token>>
    tokenResult,      \* what getValidToken or fetchWithAuth has just returned
    categories,       \* localStorage 'podtrack_categories': the category ids
    assignments,      \* localStorage 'podtrack_podcast_categories'
    statsReturned     \* what the statistics service has just returned

tokenVars == <<storedToken, tokenResult>>

serviceVars == <<categories, assignments, statsReturned>>

vars == <<now, pollingInterval, nextFire, lastPollTime, lastEpisodeId,
          episodes, keyOrder, inflight, lastOp, returned, tokenVars,
                   serviceVars>>

---------------------------------------------------------------------------
(* Bounds and constants *)

\* The clock is advanced at most MaxClock times (each time by one period).
MaxClock == 3

POLLING_INTERVAL_MS == 10000

ClockStep == POLLING_INTERVAL_MS

\* pollingInterval: number | null
NoTimer == 0

\* the handle window.setInterval returns
TimerId == 1

\* ended_at?: string -- the value of a session that has no ended_at
NoTime == -1

\* lastEpisodeId: string | null
NULL == "null"

EpisodeIds == {"A", "B"}

\* duration_ms as the provider reports it; 0 stands for a missing (falsy) value
Durations == {0, 5000, 20000}

ProgressValues == {0, 10000}

---------------------------------------------------------------------------
(* Snapshots *)

\* show.publisher stands for the metadata of an episode (name, description,
\* images, show); "" is an empty or missing value
Publishers == {"", "Acme"}

NoItem == [type |-> "none", id |-> NULL, duration_ms |-> 0, publisher |-> ""]

TrackItem == [type |-> "track", id |-> "T", duration_ms |-> 0, publisher |-> ""]

\* the episodes a snapshot can carry, with durations D and publishers P
EpisodeItemsOf(D, P) ==
    [type : {"episode"}, id : EpisodeIds, duration_ms : D, publisher : P]

EpisodeItems == EpisodeItemsOf(Durations, {"Acme"})

Items == EpisodeItems \cup {TrackItem, NoItem}

\* the JSON bodies of GET /me/player over the episodes E and positions G: an
\* episode with any flag and position; a track, playing or not; or a body
\* without an item
PlaybacksOf(E, G) ==
    [item : E, is_playing : BOOLEAN, progress_ms : G]
        \cup [item : {TrackItem}, is_playing : BOOLEAN, progress_ms : {0}]
        \cup [item : {NoItem}, is_playing : {FALSE}, progress_ms : {0}]

Playbacks == PlaybacksOf(EpisodeItems, ProgressValues)

NoPlayback == [item |-> NoItem, is_playing |-> FALSE, progress_ms |-> 0]

\* What fetchWithAuth does: it throws (network or authentication failure), or
\* it returns a response with status 204, a non-OK status, or 200 and a body.
ResponsesOf(B) ==
    {[status |-> s, body |-> NoPlayback] : s \in {"throw", "204", "error"}}
        \cup [status : {"200"}, body : B]

\* every duration and position, the metadata always present
Responses == ResponsesOf(Playbacks)

\* one duration and one position, the metadata present or empty
LedgerResponses ==
    ResponsesOf(PlaybacksOf(EpisodeItemsOf({20000}, Publishers), {0}))

\* one position, the metadata always present
PlainResponses ==
    ResponsesOf(PlaybacksOf(EpisodeItemsOf({5000, 20000}, {"Acme"}), {0}))

\* whether the localStorage accesses of updateSessionEnd (end) and of
\* storeEpisode (store) succeed during one callback
Oks == [end : BOOLEAN, store : BOOLEAN]

AllOk == [end |-> TRUE, store |-> TRUE]

\* getCurrentlyPlaying: null on 204, on a non-OK response and on a throw.
GetCurrentlyPlaying(resp) ==
    IF resp.status = "204" THEN NoPlayback
    ELSE IF resp.status = "error" THEN NoPlayback
    ELSE IF resp.status = "throw" THEN NoPlayback
    ELSE resp.body

---------------------------------------------------------------------------
(* The ledger *)

Min(a, b) == IF a <= b THEN a ELSE b

\* JavaScript's a || b on numbers
Or(a, b) == IF a # 0 THEN a ELSE b

\* JavaScript's a || b on strings
OrStr(a, b) == IF a # "" THEN a ELSE b

NoEpisodes == [e \in {} |-> 0]

Put(eps, id, rec) == [e \in (DOMAIN eps) \cup {id} |-> IF e = id THEN rec ELSE eps[e]]

\* the last session exists and has no ended_at
LastSessionOpen(rec) ==
    /\ Len(rec.sessions) > 0
    /\ rec.sessions[Len(rec.sessions)].ended_at = NoTime

\* StoreExisting taking the metadata of the snapshot as it comes
StoreExistingOverwrite(existing, item, progress_ms, timePlayedMs, t) ==
    LET maxProgress == Or(item.duration_ms, existing.duration_ms)
        n == Len(existing.sessions)
    IN  [existing EXCEPT
            !.publisher = item.publisher,
            !.last_played_at = t,
            !.progress_ms = Min(progress_ms, maxProgress),
            !.sessions =
                IF LastSessionOpen(existing)
                THEN [existing.sessions EXCEPT
                         ![n].progress_ms = Min(progress_ms, maxProgress)]
                ELSE Append(existing.sessions,
                            [started_at |-> t, ended_at |-> NoTime,
                             progress_ms |-> progress_ms]),
            !.total_played_ms =
                Min(existing.total_played_ms + timePlayedMs, maxProgress)]

\* StoreExisting pushing a session whether or not the last one has ended
StoreExistingAppending(existing, item, progress_ms, timePlayedMs, t) ==
    LET maxProgress == Or(item.duration_ms, existing.duration_ms)
    IN  [existing EXCEPT
            !.last_played_at = t,
            !.progress_ms = Min(progress_ms, maxProgress),
            !.sessions = Append(existing.sessions,
                                [started_at |-> t, ended_at |-> NoTime,
                                 progress_ms |-> progress_ms]),
            !.total_played_ms =
                Min(existing.total_played_ms + timePlayedMs, maxProgress)]

\* StoreExisting putting a new session before the others
StoreExistingPrepending(existing, item, progress_ms, timePlayedMs, t) ==
    LET maxProgress == Or(item.duration_ms, existing.duration_ms)
        n == Len(existing.sessions)
    IN  [existing EXCEPT
            !.last_played_at = t,
            !.progress_ms = Min(progress_ms, maxProgress),
            !.sessions =
                IF LastSessionOpen(existing)
                THEN [existing.sessions EXCEPT
                         ![n].progress_ms = Min(progress_ms, maxProgress)]
                ELSE <<[started_at |-> t, ended_at |-> NoTime,
                        progress_ms |-> progress_ms]>> \o existing.sessions,
            !.total_played_ms =
                Min(existing.total_played_ms + timePlayedMs, maxProgress)]

StoreExisting(existing, item, progress_ms, timePlayedMs, t) ==
    LET maxProgress == Or(item.duration_ms, existing.duration_ms)
        n == Len(existing.sessions)
    IN  [existing EXCEPT
            !.last_played_at = t,
            !.progress_ms = Min(progress_ms, maxProgress),
            !.sessions =
                IF LastSessionOpen(existing)
                THEN [existing.sessions EXCEPT
                         ![n].progress_ms = Min(progress_ms, maxProgress)]
                ELSE Append(existing.sessions,
                            [started_at |-> t, ended_at |-> NoTime,
                             progress_ms |-> progress_ms]),
            !.total_played_ms =
                Min(existing.total_played_ms + timePlayedMs, maxProgress)]

StoreNew(item, progress_ms, timePlayedMs, t) ==
    [duration_ms |-> item.duration_ms,
     publisher |-> OrStr(item.publisher, ""),
     progress_ms |-> Min(progress_ms, Or(item.duration_ms, 0)),
     total_played_ms |-> Min(timePlayedMs, Or(item.duration_ms, 0)),
     last_played_at |-> t,
     first_played_at |-> t,
     sessions |-> <<[started_at |-> t, ended_at |-> NoTime,
                     progress_ms |-> progress_ms]>>]

\* storeEpisode(episodeData, progress_ms, timePlayedMs) at time t
StoreEpisode(eps, item, progress_ms, timePlayedMs, t) ==
    IF item.id \in DOMAIN eps
    THEN Put(eps, item.id,
             StoreExisting(eps[item.id], item, progress_ms, timePlayedMs, t))
    ELSE Put(eps, item.id, StoreNew(item, progress_ms, timePlayedMs, t))

\* updateSessionEnd deleting the record whose session it closes
UpdateSessionEndRemoving(eps, episodeId, finalTimeMs, t) ==
    IF episodeId \in DOMAIN eps /\ LastSessionOpen(eps[episodeId])
    THEN [e \in (DOMAIN eps) \ {episodeId} |-> eps[e]]
    ELSE eps

\* updateSessionEnd without the test that the last session is open
UpdateSessionEndAlways(eps, episodeId, finalTimeMs, t) ==
    IF episodeId \in DOMAIN eps /\ Len(eps[episodeId].sessions) > 0
    THEN LET episode == eps[episodeId]
             n == Len(episode.sessions)
             maxProgress == Or(episode.duration_ms, 0)
         IN  Put(eps, episodeId,
                 [episode EXCEPT
                     !.sessions = [episode.sessions EXCEPT ![n].ended_at = t],
                     !.total_played_ms =
                         Min(episode.total_played_ms + finalTimeMs, maxProgress)])
    ELSE eps

\* updateSessionEnd(episodeId, finalTimeMs) at time t
UpdateSessionEnd(eps, episodeId, finalTimeMs, t) ==
    IF episodeId \in DOMAIN eps /\ LastSessionOpen(eps[episodeId])
    THEN LET episode == eps[episodeId]
             n == Len(episode.sessions)
             maxProgress == Or(episode.duration_ms, 0)
         IN  Put(eps, episodeId,
                 [episode EXCEPT
                     !.sessions = [episode.sessions EXCEPT ![n].ended_at = t],
                     !.total_played_ms =
                         Min(episode.total_played_ms + finalTimeMs, maxProgress)])
    ELSE eps

\* storeEpisode when localStorage may throw: the catch leaves the ledger as
\* it was
TryStoreEpisode(eps, item, progress_ms, timePlayedMs, t, ok) ==
    IF ok.store THEN StoreEpisode(eps, item, progress_ms, timePlayedMs, t) ELSE eps

\* updateSessionEnd when localStorage may throw
TryUpdateSessionEnd(eps, episodeId, finalTimeMs, t, ok) ==
    IF ok.end THEN UpdateSessionEnd(eps, episodeId, finalTimeMs, t) ELSE eps

---------------------------------------------------------------------------
(* The interval callback after the await *)

\* ReconcileEpisodes without the paused branch: a paused episode is handled
\* like any item that is not a playing episode
ReconcileEpisodesNoPause(eps, last, playback, timeSinceLastPoll, t, ok) ==
    LET item == playback.item
    IN  IF item.type = "episode" /\ playback.is_playing
        THEN TryStoreEpisode(
                 IF last # NULL /\ last # item.id
                 THEN TryUpdateSessionEnd(eps, last, timeSinceLastPoll, t, ok)
                 ELSE eps,
                 item, playback.progress_ms, timeSinceLastPoll, t, ok)
        ELSE IF last # NULL
             THEN TryUpdateSessionEnd(eps, last, timeSinceLastPoll, t, ok)
             ELSE eps

\* ReconcileEpisodes ending the active episode's session when another
\* episode is observed paused
ReconcileEpisodesPausedOtherEnds(eps, last, playback, timeSinceLastPoll, t, ok) ==
    LET item == playback.item
        isEpisode == item.type = "episode"
        isPlaying == playback.is_playing
    IN  IF isEpisode /\ isPlaying
        THEN TryStoreEpisode(
                 IF last # NULL /\ last # item.id
                 THEN TryUpdateSessionEnd(eps, last, timeSinceLastPoll, t, ok)
                 ELSE eps,
                 item, playback.progress_ms, timeSinceLastPoll, t, ok)
        ELSE IF isEpisode /\ ~isPlaying /\ last = item.id
        THEN eps
        ELSE IF last # NULL
             THEN TryUpdateSessionEnd(eps, last, timeSinceLastPoll, t, ok)
             ELSE eps

\* ReconcileEpisodes storing every episode it observes, playing or paused
ReconcileEpisodesAnyEpisode(eps, last, playback, timeSinceLastPoll, t, ok) ==
    LET item == playback.item
    IN  IF item.type = "episode"
        THEN TryStoreEpisode(
                 IF last # NULL /\ last # item.id
                 THEN TryUpdateSessionEnd(eps, last, timeSinceLastPoll, t, ok)
                 ELSE eps,
                 item, playback.progress_ms, timeSinceLastPoll, t, ok)
        ELSE IF last # NULL
             THEN TryUpdateSessionEnd(eps, last, timeSinceLastPoll, t, ok)
             ELSE eps

\* the ledger after the callback has handled `playback`
ReconcileEpisodes(eps, last, playback, timeSinceLastPoll, t, ok) ==
    LET item == playback.item
        isEpisode == item.type = "episode"
        isPlaying == playback.is_playing
    IN  IF item.type = "none"
        THEN IF last # NULL
             THEN TryUpdateSessionEnd(eps, last, timeSinceLastPoll, t, ok)
             ELSE eps
        ELSE IF isEpisode /\ isPlaying
        THEN TryStoreEpisode(
                 IF last # NULL /\ last # item.id
                 THEN TryUpdateSessionEnd(eps, last, timeSinceLastPoll, t, ok)
                 ELSE eps,
                 item, playback.progress_ms, timeSinceLastPoll, t, ok)
        ELSE IF isEpisode /\ ~isPlaying
        THEN eps
        ELSE IF last # NULL
             THEN TryUpdateSessionEnd(eps, last, timeSinceLastPoll, t, ok)
             ELSE eps

\* ReconcileLast making every observed episode the active one
ReconcileLastAnyEpisode(last, playback) ==
    IF playback.item.type = "episode" THEN playback.item.id ELSE NULL

\* ReconcileLast without the resets to null
ReconcileLastKeeping(last, playback) ==
    IF playback.item.type = "episode" /\ playback.is_playing
    THEN playback.item.id
    ELSE last

\* this.lastEpisodeId after the callback has handled `playback`
ReconcileLast(last, playback) ==
    LET item == playback.item
        isEpisode == item.type = "episode"
        isPlaying == playback.is_playing
    IN  IF item.type = "none" THEN NULL
        ELSE IF isEpisode /\ isPlaying THEN item.id
        ELSE IF isEpisode /\ ~isPlaying THEN last
        ELSE NULL

---------------------------------------------------------------------------
(* Operations *)

\* what the callback saw: the response's status, the item's type, id and
\* publisher, the is_playing flag and timeSinceLastPoll
Op(name, resp, elapsed) ==
    [op |-> name, status |-> resp.status, type |-> resp.body.item.type,
     id |-> resp.body.item.id, is_playing |-> resp.body.is_playing,
     publisher |-> resp.body.item.publisher,
     elapsed |-> elapsed, last |-> NULL, ok |-> AllOk]

\* ... and, for the continuation of a callback, this.lastEpisodeId as it found
\* it and whether its localStorage accesses succeeded
TickOp(resp, elapsed, last, ok) ==
    [Op("tick", resp, elapsed) EXCEPT !.last = last, !.ok = ok]

NoResp == [status |-> "none", body |-> NoPlayback]

\* no call of getRecentlyPlayedEpisodes has just returned
NoReturn == [limit |-> 0, list |-> <<>>]

\* the ids of DEFAULT_CATEGORIES, the first two of them
DefaultCategories == <<"1", "2">>

\* no call of the statistics service has just returned
NoStats ==
    [input |-> <<>>,
     stats |-> [day |-> <<>>, week |-> <<>>, month |-> <<>>, allTime |-> <<>>],
     total |-> [hours |-> 0, minutes |-> 0]]

\* no call of getValidToken or fetchWithAuth has just returned
NoTokenResult == [kind |-> "none", accessToken |-> "", refreshOk |-> FALSE]

Init ==
    /\ now = 0
    /\ pollingInterval = NoTimer
    /\ nextFire = 0
    /\ lastPollTime = 0
    /\ lastEpisodeId = NULL
    /\ episodes = NoEpisodes
    /\ keyOrder = <<>>
    /\ inflight = <<>>
    /\ lastOp = Op("init", NoResp, 0)
    /\ returned = NoReturn
    /\ storedToken = <<>>
    /\ tokenResult = NoTokenResult
    /\ categories = DefaultCategories
    /\ assignments = <<>>
    /\ statsReturned = NoStats

\* time passes
ClockTick ==
    /\ now < MaxClock * ClockStep
    /\ now' = now + ClockStep
    /\ lastOp' = Op("clock", NoResp, 0)
    /\ returned' = NoReturn
    /\ tokenResult' = NoTokenResult
    /\ UNCHANGED <<pollingInterval, nextFire, lastPollTime, lastEpisodeId,
                   episodes, keyOrder, inflight, storedToken, serviceVars>>

\* startPlaybackTracking without the test of this.pollingInterval
StartPlaybackTrackingAgain ==
    /\ lastPollTime' = now
    /\ lastEpisodeId' = NULL
    /\ pollingInterval' = TimerId
    /\ nextFire' = now + POLLING_INTERVAL_MS
    /\ lastOp' = Op("start", NoResp, 0)
    /\ returned' = NoReturn
    /\ UNCHANGED <<now, episodes, keyOrder, inflight, tokenVars, serviceVars>>

\* startPlaybackTracking without this.lastPollTime = Date.now()
StartPlaybackTrackingStale ==
    /\ IF pollingInterval # NoTimer
       THEN UNCHANGED <<pollingInterval, nextFire, lastEpisodeId>>
       ELSE /\ lastEpisodeId' = NULL
            /\ pollingInterval' = TimerId
            /\ nextFire' = now + POLLING_INTERVAL_MS
    /\ lastOp' = Op("start", NoResp, 0)
    /\ returned' = NoReturn
    /\ UNCHANGED <<now, lastPollTime, episodes, keyOrder, inflight, tokenVars,
                   serviceVars>>

StartPlaybackTracking ==
    /\ IF pollingInterval # NoTimer
       THEN UNCHANGED <<pollingInterval, nextFire, lastPollTime, lastEpisodeId>>
       ELSE /\ lastPollTime' = now
            /\ lastEpisodeId' = NULL
            /\ pollingInterval' = TimerId
            /\ nextFire' = now + POLLING_INTERVAL_MS
    /\ lastOp' = Op("start", NoResp, 0)
    /\ returned' = NoReturn
    /\ UNCHANGED <<now, episodes, keyOrder, inflight, tokenVars,
                   serviceVars>>

StopPlaybackTracking ==
    /\ IF pollingInterval # NoTimer
       THEN pollingInterval' = NoTimer
       ELSE UNCHANGED pollingInterval
    /\ lastOp' = Op("stop", NoResp, 0)
    /\ returned' = NoReturn
    /\ UNCHANGED <<now, nextFire, lastPollTime, lastEpisodeId, episodes,
                   keyOrder, inflight, tokenVars,
                   serviceVars>>

\* the callback up to the await, without this.lastPollTime = now
TimerFireKeepingPollTime ==
    /\ pollingInterval # NoTimer
    /\ now >= nextFire
    /\ inflight' = Append(inflight, now - lastPollTime)
    /\ lastOp' = Op("fire", NoResp, now - lastPollTime)
    /\ nextFire' = now + POLLING_INTERVAL_MS
    /\ returned' = NoReturn
    /\ UNCHANGED <<now, pollingInterval, lastPollTime, lastEpisodeId, episodes,
                   keyOrder, tokenVars,
                   serviceVars>>

\* the interval callback up to the await
TimerFire ==
    /\ pollingInterval # NoTimer
    /\ now >= nextFire
    /\ LET timeSinceLastPoll == now - lastPollTime
       IN  /\ inflight' = Append(inflight, timeSinceLastPoll)
           /\ lastOp' = Op("fire", NoResp, timeSinceLastPoll)
    /\ lastPollTime' = now
    /\ nextFire' = now + POLLING_INTERVAL_MS
    /\ returned' = NoReturn
    /\ UNCHANGED <<now, pollingInterval, lastEpisodeId, episodes, keyOrder,
                   tokenVars,
                   serviceVars>>

RemoveAt(s, i) == [j \in 1..(Len(s) - 1) |-> IF j < i THEN s[j] ELSE s[j + 1]]

\* the keys of the stored object: a new key is added after the others
KeysAfter(order, eps) ==
    LET new == (DOMAIN eps) \ {order[k] : k \in 1..Len(order)}
    IN  IF new = {} THEN order ELSE Append(order, CHOOSE x \in new : TRUE)

\* the continuation with a catch block that clears the interval
FetchReturnDisarming(i, resp, ok) ==
    LET timeSinceLastPoll == inflight[i]
        playback == GetCurrentlyPlaying(resp)
        failed == resp.status \in {"throw", "error"} \/ ~ok.end \/ ~ok.store
    IN  /\ episodes' = ReconcileEpisodes(episodes, lastEpisodeId, playback,
                                         timeSinceLastPoll, now, ok)
        /\ keyOrder' = KeysAfter(keyOrder, episodes')
        /\ lastEpisodeId' = ReconcileLast(lastEpisodeId, playback)
        /\ inflight' = RemoveAt(inflight, i)
        /\ lastOp' = TickOp(resp, timeSinceLastPoll, lastEpisodeId, ok)
        /\ returned' = NoReturn
        /\ pollingInterval' = IF failed THEN NoTimer ELSE pollingInterval
        /\ UNCHANGED <<now, nextFire, lastPollTime, tokenVars,
                   serviceVars>>

\* the interval callback from the await on: the i-th pending fetch returns
FetchReturn(i, resp, ok) ==
    LET timeSinceLastPoll == inflight[i]
        playback == GetCurrentlyPlaying(resp)
    IN  /\ episodes' = ReconcileEpisodes(episodes, lastEpisodeId, playback,
                                         timeSinceLastPoll, now, ok)
        /\ keyOrder' = KeysAfter(keyOrder, episodes')
        /\ lastEpisodeId' = ReconcileLast(lastEpisodeId, playback)
        /\ inflight' = RemoveAt(inflight, i)
        /\ lastOp' = TickOp(resp, timeSinceLastPoll, lastEpisodeId, ok)
        /\ returned' = NoReturn
        /\ UNCHANGED <<now, pollingInterval, nextFire, lastPollTime, tokenVars,
                   serviceVars>>

\* clearStoredEpisodes removing another key than STORAGE_KEY
ClearOtherKey ==
    /\ lastOp' = Op("clear", NoResp, 0)
    /\ returned' = NoReturn
    /\ UNCHANGED <<now, pollingInterval, nextFire, lastPollTime, lastEpisodeId,
                   episodes, keyOrder, inflight, tokenVars,
                   serviceVars>>

ClearStoredEpisodes ==
    /\ episodes' = NoEpisodes
    /\ keyOrder' = <<>>
    /\ lastOp' = Op("clear", NoResp, 0)
    /\ returned' = NoReturn
    /\ UNCHANGED <<now, pollingInterval, nextFire, lastPollTime, lastEpisodeId,
                   inflight, tokenVars,
                   serviceVars>>

Next ==
    \/ ClockTick
    \/ StartPlaybackTracking
    \/ StopPlaybackTracking
    \/ TimerFire
    \/ \E i \in 1..Len(inflight) : \E resp \in Responses :
           FetchReturn(i, resp, AllOk)
    \/ ClearStoredEpisodes

Spec == Init /\ [][Next]_vars

---------------------------------------------------------------------------
(* Listing the ledger *)

\* the limit getRecentlyPlayedEpisodes takes when it is given none
DefaultLimit == 50

Limits == {1, DefaultLimit}

\* Object.values(episodes): the records in the order of the keys
Values(eps, order) == [k \in 1..Len(order) |-> [id |-> order[k], rec |-> eps[order[k]]]]

\* r put into `sorted`, after every entry that compares <= 0 against it
InsertSorted(sorted, r) ==
    LET before == {k \in 1..Len(sorted) :
                      \A j \in 1..k :
                          sorted[j].rec.last_played_at >= r.rec.last_played_at}
        n == Cardinality(before)
    IN  SubSeq(sorted, 1, n) \o <<r>> \o SubSeq(sorted, n + 1, Len(sorted))

RECURSIVE SortByLastPlayed(_)
\* Array.prototype.sort with (a, b) => b.last_played_at - a.last_played_at
SortByLastPlayed(s) ==
    IF s = <<>> THEN <<>>
    ELSE InsertSorted(SortByLastPlayed(SubSeq(s, 1, Len(s) - 1)), s[Len(s)])

\* getStoredEpisodes without the sort
GetStoredEpisodesUnsorted(eps, order) == Values(eps, order)

\* getStoredEpisodes
GetStoredEpisodes(eps, order) == SortByLastPlayed(Values(eps, order))

\* the SpotifyEpisode made of a StoredEpisode
Reported(v) ==
    [id |-> v.id, duration_ms |-> v.rec.duration_ms,
     publisher |-> v.rec.publisher, played_at |-> v.rec.last_played_at,
     progress_ms |-> v.rec.progress_ms,
     total_played_ms |-> v.rec.total_played_ms]

\* what getRecentlyPlayedEpisodes(limit) returns
RecentlyPlayed(eps, order, limit) ==
    LET stored == GetStoredEpisodes(eps, order)
    IN  [k \in 1..Min(limit, Len(stored)) |-> Reported(stored[k])]

GetRecentlyPlayedEpisodes(limit) ==
    /\ returned' = [limit |-> limit, list |-> RecentlyPlayed(episodes, keyOrder, limit)]
    /\ lastOp' = Op("list", NoResp, 0)
    /\ UNCHANGED <<now, pollingInterval, nextFire, lastPollTime, lastEpisodeId,
                   episodes, keyOrder, inflight, tokenVars,
                   serviceVars>>

\* The ledger and its listing, with snapshots whose metadata may be empty.
NextLedger ==
    \/ ClockTick
    \/ StartPlaybackTracking
    \/ StopPlaybackTracking
    \/ TimerFire
    \/ \E i \in 1..Len(inflight) : \E resp \in LedgerResponses :
           FetchReturn(i, resp, AllOk)
    \/ ClearStoredEpisodes
    \/ \E limit \in Limits : GetRecentlyPlayedEpisodes(limit)

SpecLedger == Init /\ [][NextLedger]_vars

\* The loop with one duration per snapshot family and no storage fault.
NextPlain ==
    \/ ClockTick
    \/ StartPlaybackTracking
    \/ StopPlaybackTracking
    \/ TimerFire
    \/ \E i \in 1..Len(inflight) : \E resp \in PlainResponses :
           FetchReturn(i, resp, AllOk)
    \/ ClearStoredEpisodes

SpecPlain == Init /\ [][NextPlain]_vars

\* The loop of SpecPlain while the ledger is never cleared.
NextTracking ==
    \/ ClockTick
    \/ StartPlaybackTracking
    \/ StopPlaybackTracking
    \/ TimerFire
    \/ \E i \in 1..Len(inflight) : \E resp \in PlainResponses :
           FetchReturn(i, resp, AllOk)

SpecTracking == Init /\ [][NextTracking]_vars

\* The loop where each localStorage access of a callback may throw.
NextFault ==
    \/ ClockTick
    \/ StartPlaybackTracking
    \/ StopPlaybackTracking
    \/ TimerFire
    \/ \E i \in 1..Len(inflight) : \E resp \in PlainResponses : \E ok \in Oks :
           FetchReturn(i, resp, ok)
    \/ ClearStoredEpisodes

SpecFault == Init /\ [][NextFault]_vars

----------------------------------------------------------------------------
(* The token provider.  storedToken is the 'spotify_token' entry of
   localStorage: <<>> when absent, else a one-element sequence. *)

TOKEN_BUFFER_MS == 60000

\* expires_in of a token response, in seconds
ExpiresIn == {70, 80}

AccessTokens == {"a1", "a2"}

\* "" stands for a response without refresh_token
RefreshTokens == {"", "r1"}

\* what the token endpoint answers: response.ok and the AccessTokenResponse
TokenResponses ==
    [ok : BOOLEAN, access_token : AccessTokens, refresh_token : RefreshTokens,
     expires_in : ExpiresIn]

\* statuses of the authorised request of fetchWithAuth
AuthStatuses == {"200", "401"}

NoToken == <<>>

\* getStoredToken: the stored token, or null once it has expired
GetStoredToken(st, t) ==
    IF st = NoToken THEN NoToken
    ELSE IF t >= st[1].expiresAt THEN NoToken
    ELSE st

\* the SpotifyToken built from a token response
NewToken(data, refreshToken, t) ==
    [accessToken |-> data.access_token,
     refreshToken |-> OrStr(data.refresh_token, refreshToken),
     expiresAt |-> t + data.expires_in * 1000 - TOKEN_BUFFER_MS]

\* refreshAccessToken: the storage it leaves and the token it returns
\* (none when it throws)
RefreshAccessToken(st, refreshToken, data, t) ==
    IF ~data.ok
    THEN [stored |-> NoToken, token |-> NoToken]
    ELSE [stored |-> <<NewToken(data, refreshToken, t)>>,
          token |-> <<NewToken(data, refreshToken, t)>>]

\* getValidToken: the storage it leaves and what it returns or throws
GetValidToken(st, data, t) ==
    LET token == GetStoredToken(st, t)
    IN  IF token = NoToken \/ t >= token[1].expiresAt
        THEN IF token # NoToken /\ token[1].refreshToken # ""
             THEN LET r == RefreshAccessToken(st, token[1].refreshToken, data, t)
                  IN  IF r.token = NoToken
                      THEN [stored |-> r.stored, kind |-> "error",
                            accessToken |-> ""]
                      ELSE [stored |-> r.stored, kind |-> "token",
                            accessToken |-> r.token[1].accessToken]
             ELSE [stored |-> st, kind |-> "error", accessToken |-> ""]
        ELSE [stored |-> st, kind |-> "token",
              accessToken |-> token[1].accessToken]

\* fetchWithAuth: the storage it leaves and what it returns or throws
FetchWithAuthResult(st, status, data, t) ==
    LET first == GetValidToken(st, data, t)
        storedToken2 == GetStoredToken(first.stored, t)
    IN  IF first.kind = "error" THEN first
        ELSE IF status # "401"
        THEN [first EXCEPT !.kind = "response"]
        ELSE IF storedToken2 # NoToken /\ storedToken2[1].refreshToken # ""
        THEN LET r == RefreshAccessToken(first.stored,
                                         storedToken2[1].refreshToken, data, t)
                 second == GetValidToken(r.stored, data, t)
             IN  IF r.token = NoToken
                 THEN [stored |-> r.stored, kind |-> "error", accessToken |-> ""]
                 ELSE IF second.kind = "error" THEN second
                 ELSE [second EXCEPT !.kind = "response"]
        ELSE [stored |-> NoToken, kind |-> "error", accessToken |-> ""]

LoopVars ==
    <<now, pollingInterval, nextFire, lastPollTime, lastEpisodeId, episodes,
      keyOrder, inflight>>

ExchangeCodeForToken(data) ==
    /\ IF data.ok
       THEN /\ storedToken' = <<NewToken(data, "", now)>>
            /\ tokenResult' = [kind |-> "token",
                               accessToken |-> data.access_token,
                               refreshOk |-> data.ok]
       ELSE /\ storedToken' = storedToken
            /\ tokenResult' = [kind |-> "error", accessToken |-> "",
                               refreshOk |-> data.ok]
    /\ lastOp' = Op("exchangeCodeForToken", NoResp, 0)
    /\ returned' = NoReturn
    /\ UNCHANGED <<LoopVars, serviceVars>>

\* a call of getValidToken; data is what the token endpoint would answer
CallGetValidToken(data) ==
    LET r == GetValidToken(storedToken, data, now)
    IN  /\ storedToken' = r.stored
        /\ tokenResult' = [kind |-> r.kind, accessToken |-> r.accessToken,
                           refreshOk |-> data.ok]
        /\ lastOp' = Op("getValidToken", NoResp, 0)
        /\ returned' = NoReturn
        /\ UNCHANGED <<LoopVars, serviceVars>>

FetchWithAuth(status, data) ==
    LET r == FetchWithAuthResult(storedToken, status, data, now)
    IN  /\ storedToken' = r.stored
        /\ tokenResult' = [kind |-> r.kind, accessToken |-> r.accessToken,
                           refreshOk |-> data.ok]
        /\ lastOp' = Op("fetchWithAuth", NoResp, 0)
        /\ returned' = NoReturn
        /\ UNCHANGED <<LoopVars, serviceVars>>

Logout ==
    /\ storedToken' = NoToken
    /\ tokenResult' = NoTokenResult
    /\ lastOp' = Op("logout", NoResp, 0)
    /\ returned' = NoReturn
    /\ UNCHANGED <<LoopVars, serviceVars>>

NextToken ==
    \/ ClockTick
    \/ \E data \in TokenResponses : ExchangeCodeForToken(data)
    \/ \E data \in TokenResponses : CallGetValidToken(data)
    \/ \E status \in AuthStatuses : \E data \in TokenResponses :
           FetchWithAuth(status, data)
    \/ Logout

SpecToken == Init /\ [][NextToken]_vars

----------------------------------------------------------------------------
(* updateSessionEnd as a function of the stored ledger *)

ClosedSession == [started_at |-> 0, ended_at |-> 0, progress_ms |-> 0]

OpenSession == [started_at |-> 0, ended_at |-> NoTime, progress_ms |-> 0]

\* the session arrays of a StoredEpisode: none, last one ended, last one open
CloseSessions ==
    {<<>>, <<ClosedSession>>, <<OpenSession>>, <<ClosedSession, ClosedSession>>,
     <<ClosedSession, OpenSession>>}

CloseRecords ==
    [duration_ms : {5000, 20000}, publisher : {"Acme"}, progress_ms : {0},
     total_played_ms : {0, 5000}, last_played_at : {0}, first_played_at : {0},
     sessions : CloseSessions]

\* the ledgers localStorage may hold when updateSessionEnd is called
CloseLedgers ==
    UNION {[S -> CloseRecords] : S \in SUBSET EpisodeIds}

\* finalTimeMs of a call
FinalTimes == {0, POLLING_INTERVAL_MS}

InitClose ==
    /\ now = ClockStep
    /\ pollingInterval = NoTimer
    /\ nextFire = 0
    /\ lastPollTime = 0
    /\ lastEpisodeId = NULL
    /\ episodes \in CloseLedgers
    /\ keyOrder = KeysAfter(KeysAfter(<<>>, episodes), episodes)
    /\ inflight = <<>>
    /\ lastOp = Op("init", NoResp, 0)
    /\ returned = NoReturn
    /\ storedToken = <<>>
    /\ tokenResult = NoTokenResult
    /\ categories = DefaultCategories
    /\ assignments = <<>>
    /\ statsReturned = NoStats

\* one call updateSessionEnd(episodeId, finalTimeMs)
CallUpdateSessionEnd(episodeId, finalTimeMs, ok) ==
    /\ episodes' = TryUpdateSessionEnd(episodes, episodeId, finalTimeMs, now, ok)
    /\ lastOp' = [Op("updateSessionEnd", NoResp, finalTimeMs)
                      EXCEPT !.last = episodeId, !.ok = ok]
    /\ returned' = NoReturn
    /\ UNCHANGED <<now, pollingInterval, nextFire, lastPollTime, lastEpisodeId,
                   keyOrder, inflight, tokenVars,
                   serviceVars>>

NextClose ==
    \/ ClockTick
    \/ \E episodeId \in EpisodeIds : \E finalTimeMs \in FinalTimes : \E ok \in Oks :
           CallUpdateSessionEnd(episodeId, finalTimeMs, ok)

SpecClose == InitClose /\ [][NextClose]_vars

----------------------------------------------------------------------------
(* The category service and the statistics service.  A category is modelled
   by its id, an assignment by its podcastId and categoryId. *)

MS_PER_MINUTE == 60000

\* a day; the dates of the statistics (played_at, the starts of the periods)
\* are counted in seconds, 30 days of milliseconds being beyond TLC's integers
DAY_S == 24 * 60 * 60

\* the category ids, in the order in which an object lists these keys
CategoryIds == <<"1", "2">>

ShowIds == {"s1", "s2"}

\* played_at: two days before the clock's origin, or at it
PlayedAts == {0 - 2 * DAY_S, 0}

\* the SpotifyEpisode values handed to the statistics service
StatsEpisodes ==
    [show_id : ShowIds, duration_ms : {120000},
     total_played_ms : {30000, 60000}, played_at : PlayedAts]

\* the arrays of them
StatsInputs == {<<>>} \cup {<<e>> : e \in StatsEpisodes}
                   \cup {<<e, f>> : e \in StatsEpisodes, f \in StatsEpisodes}

\* getCategoryForPodcast: categoryId of the first assignment of the podcast
GetCategoryForPodcast(asg, podcastId) ==
    LET found == {i \in 1..Len(asg) : asg[i].podcastId = podcastId}
    IN  IF found = {} THEN NULL
        ELSE asg[CHOOSE i \in found : \A j \in found : i <= j].categoryId

\* assignCategory: the assignments it saves
AssignCategoryTo(asg, podcastId, categoryId) ==
    LET found == {i \in 1..Len(asg) : asg[i].podcastId = podcastId}
        new == [podcastId |-> podcastId, categoryId |-> categoryId]
    IN  IF found # {}
        THEN [asg EXCEPT ![CHOOSE i \in found : \A j \in found : i <= j] = new]
        ELSE Append(asg, new)

RECURSIVE CategoryMinutes(_, _, _)
\* categoryMinutes[c] after the forEach over the episodes
CategoryMinutes(eps, asg, c) ==
    IF eps = <<>> THEN 0
    ELSE (IF GetCategoryForPodcast(asg, Head(eps).show_id) = c
          THEN Head(eps).duration_ms \div MS_PER_MINUTE
          ELSE 0) + CategoryMinutes(Tail(eps), asg, c)

\* the keys of categoryMinutes: the categories and the categories assigned
\* to an episode's show
StatKeys(eps, asg, cats) ==
    LET InCats(c) == \E i \in 1..Len(cats) : cats[i] = c
        InEps(c) == \E i \in 1..Len(eps) :
                        GetCategoryForPodcast(asg, eps[i].show_id) = c
        Keep(c) == InCats(c) \/ InEps(c)
    IN  SelectSeq(CategoryIds, Keep)

\* the array sorted by totalMinutes, descending, as a stable sort leaves it
InsertByMinutes(sorted, r) ==
    LET before == {i \in 1..Len(sorted) : sorted[i].totalMinutes >= r.totalMinutes}
        k == Cardinality(before)
    IN  SubSeq(sorted, 1, k) \o <<r>> \o SubSeq(sorted, k + 1, Len(sorted))

RECURSIVE SortByMinutes(_)
SortByMinutes(s) ==
    IF s = <<>> THEN <<>>
    ELSE InsertByMinutes(SortByMinutes(SubSeq(s, 1, Len(s) - 1)), s[Len(s)])

CalculateStatsForEpisodes(eps, asg, cats) ==
    LET keys == StatKeys(eps, asg, cats)
        Stat(c) ==
            LET totalMinutes == CategoryMinutes(eps, asg, c)
            IN  [categoryId |-> c, hours |-> totalMinutes \div 60,
                 minutes |-> totalMinutes % 60, totalMinutes |-> totalMinutes]
        entries == [i \in 1..Len(keys) |-> Stat(keys[i])]
        Positive(st) == st.totalMinutes > 0
    IN  SortByMinutes(SelectSeq(entries, Positive))

CalculateStatsForPeriod(eps, periodStart, asg, cats) ==
    LET InPeriod(e) == e.played_at >= periodStart
    IN  CalculateStatsForEpisodes(SelectSeq(eps, InPeriod), asg, cats)

CalculateStats(eps, asg, cats, t) ==
    [day |-> CalculateStatsForPeriod(eps, t - DAY_S, asg, cats),
     week |-> CalculateStatsForPeriod(eps, t - 7 * DAY_S, asg, cats),
     month |-> CalculateStatsForPeriod(eps, t - 30 * DAY_S, asg, cats),
     allTime |-> CalculateStatsForEpisodes(eps, asg, cats)]

RECURSIVE TotalMinutes(_, _)
\* the reduce of getTotalListeningTime
TotalMinutes(eps, asg) ==
    IF eps = <<>> THEN 0
    ELSE (IF GetCategoryForPodcast(asg, Head(eps).show_id) # NULL
          THEN Head(eps).duration_ms \div MS_PER_MINUTE
          ELSE 0) + TotalMinutes(Tail(eps), asg)

GetTotalListeningTime(eps, asg) ==
    [hours |-> TotalMinutes(eps, asg) \div 60,
     minutes |-> TotalMinutes(eps, asg) % 60]

SpotifyVars == <<LoopVars, returned, tokenVars>>

\* a call of the category service with its arguments
CategoryOp(name, podcastId, categoryId) ==
    [op |-> name, podcastId |-> podcastId, categoryId |-> categoryId]

AssignCategory(podcastId, categoryId) ==
    /\ assignments' = AssignCategoryTo(assignments, podcastId, categoryId)
    /\ statsReturned' = NoStats
    /\ lastOp' = CategoryOp("assignCategory", podcastId, categoryId)
    /\ UNCHANGED <<SpotifyVars, categories>>

RemoveCategoryAssignment(podcastId) ==
    /\ assignments' =
           LET Other(a) == a.podcastId # podcastId
           IN  SelectSeq(assignments, Other)
    /\ statsReturned' = NoStats
    /\ lastOp' = CategoryOp("removeCategoryAssignment", podcastId, NULL)
    /\ UNCHANGED <<SpotifyVars, categories>>

DeleteCategory(categoryId) ==
    /\ categories' =
           LET Other(c) == c # categoryId
           IN  SelectSeq(categories, Other)
    /\ assignments' =
           LET Other(a) == a.categoryId # categoryId
           IN  SelectSeq(assignments, Other)
    /\ statsReturned' = NoStats
    /\ lastOp' = CategoryOp("deleteCategory", NULL, categoryId)
    /\ UNCHANGED SpotifyVars

\* one call of calculateStats and one of getTotalListeningTime on `eps`
CallCalculateStats(eps) ==
    /\ statsReturned' =
           [input |-> eps,
            stats |-> CalculateStats(eps, assignments, categories, now \div 1000),
            total |-> GetTotalListeningTime(eps, assignments)]
    /\ lastOp' = Op("calculateStats", NoResp, 0)
    /\ UNCHANGED <<SpotifyVars, categories, assignments>>

NextStats ==
    \/ \E podcastId \in ShowIds : \E i \in 1..Len(CategoryIds) :
           AssignCategory(podcastId, CategoryIds[i])
    \/ \E podcastId \in ShowIds : RemoveCategoryAssignment(podcastId)
    \/ \E i \in 1..Len(CategoryIds) : DeleteCategory(CategoryIds[i])
    \/ \E eps \in StatsInputs : CallCalculateStats(eps)

SpecStats == Init /\ [][NextStats]_vars

---------------------------------------------------------------------------
(* Notions the properties share *)

\* the sessions of the ledger that have no ended_at
OpenSessions(eps) ==
    {p \in UNION {{<<e, i>> : i \in 1..Len(eps[e].sessions)} : e \in DOMAIN eps} :
        eps[p[1]].sessions[p[2]].ended_at = NoTime}

\* episode x has a record whose last session is open
IsOpen(eps, x) == x \in DOMAIN eps /\ LastSessionOpen(eps[x])

\* total_played_ms of x, 0 when the ledger has no record of x
TotalOf(eps, x) == IF x \in DOMAIN eps THEN eps[x].total_played_ms ELSE 0

SessionsOf(eps, x) == IF x \in DOMAIN eps THEN eps[x].sessions ELSE <<>>

RECURSIVE SumOver(_, _, _)
\* the sum over x in S of how much total_played_ms of x grew from old to new
SumOver(S, old, new) ==
    IF S = {} THEN 0
    ELSE LET x == CHOOSE y \in S : TRUE
             d == TotalOf(new, x) - TotalOf(old, x)
         IN  (IF d > 0 THEN d ELSE 0) + SumOver(S \ {x}, old, new)

\* the step is the continuation of an interval callback
TickStep == lastOp'.op = "tick"

\* ... whose snapshot is an episode that is playing / paused
PlayingStep == TickStep /\ lastOp'.type = "episode" /\ lastOp'.is_playing

PausedStep == TickStep /\ lastOp'.type = "episode" /\ ~lastOp'.is_playing

\* ... whose fetch failed: fetchWithAuth threw, or the response was not OK
UnavailableStep == TickStep /\ lastOp'.status \in {"throw", "error"}

---------------------------------------------------------------------------
(* C1..C10 *)

\* C1: every stored record (with a known duration) has
\* total_played_ms <= duration_ms, after every storeEpisode and updateSessionEnd.
C1_TotalWithinDuration ==
    \A e \in DOMAIN episodes :
        episodes[e].duration_ms # 0 =>
            episodes[e].total_played_ms <= episodes[e].duration_ms

\* C2: while tracking is active the ledger holds at most one session without
\* ended_at, counted across all records.
C2_AtMostOneOpen ==
    pollingInterval # NoTimer => Cardinality(OpenSessions(episodes)) <= 1

\* C3: with A active, a tick that observes another episode B playing sets
\* ended_at on A's open session, appends an open session for B and makes B
\* active, so that afterwards exactly one of A and B is open.
C3_SwitchStep ==
    LET A == lastEpisodeId
        B == lastOp'.id
    IN  (PlayingStep /\ A # NULL /\ A # B) =>
            /\ ~IsOpen(episodes', A)
            /\ Len(SessionsOf(episodes', B)) = Len(SessionsOf(episodes, B)) + 1
            /\ IsOpen(episodes', B)
            /\ lastEpisodeId' = B

\* C3, of every step: the switching tick closes A, appends B's open session
\* and makes B active.
C3_Switch == [][C3_SwitchStep]_vars

\* C4: a tick that observes the active episode X paused leaves
\* total_played_ms(X) unchanged, leaves X's open session open and leaves X active.
C4_PausedStep ==
    LET X == lastEpisodeId
    IN  (PausedStep /\ lastOp'.id = X) =>
            /\ TotalOf(episodes', X) = TotalOf(episodes, X)
            /\ SessionsOf(episodes', X) = SessionsOf(episodes, X)
            /\ IsOpen(episodes, X) => IsOpen(episodes', X)
            /\ lastEpisodeId' = X

\* C4, of every step: a paused tick for the active episode changes neither its
\* total_played_ms nor its sessions nor the active episode.
C4_PausedTickKeepsSession == [][C4_PausedStep]_vars

\* C4 witness: a paused tick has just been handled for the active episode,
\* which has listening time and an open session.
C4_Witness ==
    /\ lastOp.op = "tick" /\ lastOp.type = "episode" /\ ~lastOp.is_playing
    /\ lastOp.id = lastEpisodeId
    /\ IsOpen(episodes, lastEpisodeId)
    /\ episodes[lastEpisodeId].total_played_ms > 0

\* C5: a tick whose fetch is Unavailable leaves the ledger and the active
\* episode unchanged, whether or not an episode is active.
C5_UnavailableStep ==
    UnavailableStep => episodes' = episodes /\ lastEpisodeId' = lastEpisodeId

\* C5, of every step: an Unavailable tick changes neither the ledger nor the
\* active episode.
C5_UnavailableIsNoOp == [][C5_UnavailableStep]_vars

\* C6: tracking starts at 0 on an empty ledger, ticks are 10 s apart and X
\* lasts at least 20000 ms.  After the first tick (X playing) X has an open
\* session; after the second (X playing, position 10000) total_played_ms(X) is
\* 10000; after the third (nothing playing) the session has ended_at = the
\* third tick's time and total_played_ms(X) is 20000.
C6_Scenario ==
    \A X \in DOMAIN episodes :
        LET r == episodes[X]
            first == /\ r.first_played_at = POLLING_INTERVAL_MS
                     /\ r.duration_ms >= 2 * POLLING_INTERVAL_MS
                     /\ Len(r.sessions) = 1
                     /\ r.sessions[1].started_at = POLLING_INTERVAL_MS
                     /\ lastOp.op = "tick"
                     /\ lastOp.elapsed = POLLING_INTERVAL_MS
        IN  /\ (first /\ now = POLLING_INTERVAL_MS /\ lastOp.id = X
                  /\ lastOp.is_playing /\ r.last_played_at = now)
               => LastSessionOpen(r)
            /\ (first /\ now = 2 * POLLING_INTERVAL_MS /\ lastOp.id = X
                  /\ lastOp.is_playing /\ r.last_played_at = now
                  /\ r.progress_ms = POLLING_INTERVAL_MS)
               => r.total_played_ms = POLLING_INTERVAL_MS
            /\ (first /\ now = 3 * POLLING_INTERVAL_MS /\ lastOp.status = "204"
                  /\ r.last_played_at = 2 * POLLING_INTERVAL_MS
                  /\ r.progress_ms = POLLING_INTERVAL_MS)
               => /\ r.sessions[1].ended_at = now
                  /\ r.total_played_ms = 2 * POLLING_INTERVAL_MS

\* C7: once the time attributed to X reaches duration_ms(X), total_played_ms(X)
\* is exactly duration_ms(X), and it stays there on further ticks.
C7_SaturationStep ==
    TickStep =>
        \A X \in DOMAIN episodes' :
            LET r == episodes'[X]
                attributed ==
                    \/ PlayingStep /\ lastOp'.id = X
                    \/ /\ lastEpisodeId = X /\ IsOpen(episodes, X)
                       /\ ~PausedStep /\ ~(PlayingStep /\ lastOp'.id = X)
            IN  r.duration_ms # 0 =>
                  /\ (attributed
                        /\ TotalOf(episodes, X) + lastOp'.elapsed >= r.duration_ms)
                     => r.total_played_ms = r.duration_ms
                  /\ (X \in DOMAIN episodes
                        /\ episodes[X].total_played_ms = episodes[X].duration_ms)
                     => r.total_played_ms = r.duration_ms

\* C7, of every step: total_played_ms saturates at duration_ms and stays there.
C7_Saturation == [][C7_SaturationStep]_vars

\* C8: stopPlaybackTracking closes the open session, so that no session is
\* open in the ledger once tracking has been stopped.
C8_StopStep == lastOp'.op = "stop" => OpenSessions(episodes') = {}

\* C8, of every step: after stopPlaybackTracking no session is open.
C8_StopClosesSession == [][C8_StopStep]_vars

\* C9: when a tick that observed nothing playing has completed, the ledger
\* holds no open session.
C9_EmptyTickLeavesNoneOpen ==
    (lastOp.op = "tick" /\ lastOp.status = "204") => OpenSessions(episodes) = {}

\* C10: over any single tick the increases of total_played_ms, summed over
\* all episodes, are at most that tick's elapsed time.
C10_ElapsedStep ==
    TickStep =>
        SumOver(DOMAIN episodes', episodes, episodes') <= lastOp'.elapsed

\* C10, of every step: a tick adds at most its elapsed time, over all episodes.
C10_ElapsedNotSplit == [][C10_ElapsedStep]_vars

---------------------------------------------------------------------------
(* C11..C20 *)

\* C11: no tick lowers total_played_ms of any episode, whatever duration_ms
\* the snapshot or the stored record carries.
C11_MonotoneStep ==
    TickStep =>
        \A x \in DOMAIN episodes : TotalOf(episodes', x) >= TotalOf(episodes, x)

\* C11, of every step: total_played_ms never decreases over a tick.
C11_TotalMonotone == [][C11_MonotoneStep]_vars

\* C12: a playing snapshot of X that carries an empty publisher leaves a
\* non-empty stored publisher of X as it is.
C12_MetadataStep ==
    \A X \in DOMAIN episodes :
        (PlayingStep /\ lastOp'.id = X /\ lastOp'.publisher = ""
            /\ episodes[X].publisher # "")
        => (X \in DOMAIN episodes' /\ episodes'[X].publisher = episodes[X].publisher)

\* C12, of every step: metadata once known is never erased.
C12_MetadataKept == [][C12_MetadataStep]_vars

\* C12 witness: a playing snapshot of X with an empty publisher has just been
\* stored, and the record of X still names its publisher.
C12_Witness ==
    /\ lastOp.op = "tick" /\ lastOp.type = "episode" /\ lastOp.is_playing
    /\ lastOp.publisher = ""
    /\ lastOp.id \in DOMAIN episodes
    /\ episodes[lastOp.id].publisher = "Acme"
    /\ episodes[lastOp.id].last_played_at = now
    /\ episodes[lastOp.id].first_played_at < now

\* C13: listing the ledger right after clearStoredEpisodes returns the empty
\* sequence, whatever the ledger held.
C13_ClearListStep ==
    (lastOp.op = "clear" /\ lastOp'.op = "list") => returned'.list = <<>>

\* C13, of every step: a listing that follows a clear is empty.
C13_ClearThenListEmpty == [][C13_ClearListStep]_vars

\* C13 witness: an episode had been recorded (it is still the active one),
\* the ledger has been cleared, and a listing has just returned nothing.
C13_Witness ==
    /\ lastOp.op = "list"
    /\ returned.list = <<>>
    /\ lastEpisodeId # NULL
    /\ episodes = NoEpisodes

\* C14: getRecentlyPlayedEpisodes(limit) leaves the ledger as it is and
\* returns min(limit, number of records) records, each reported with
\* played_at = last_played_at, most recent first, none more recent left out.
C14_ListStep ==
    lastOp'.op = "list" =>
        LET r == returned'.list
            limit == returned'.limit
        IN  /\ episodes' = episodes
            /\ Len(r) = Min(limit, Cardinality(DOMAIN episodes))
            /\ \A i \in 1..Len(r) :
                   /\ r[i].id \in DOMAIN episodes
                   /\ r[i].played_at = episodes[r[i].id].last_played_at
                   /\ r[i].total_played_ms = episodes[r[i].id].total_played_ms
            /\ \A i, j \in 1..Len(r) :
                   /\ i < j => r[i].played_at >= r[j].played_at
                   /\ i # j => r[i].id # r[j].id
            /\ \A x \in DOMAIN episodes :
                   (\A i \in 1..Len(r) : r[i].id # x) =>
                       \A i \in 1..Len(r) :
                           r[i].played_at >= episodes[x].last_played_at

\* C14, of every step: the listing is the most recent records, in order.
C14_ListingOrdered == [][C14_ListStep]_vars

\* C14 witness: of two records the listing with limit 1 has just returned the
\* one played last, which is not the first key of the stored object.
C14_Witness ==
    /\ lastOp.op = "list"
    /\ returned.limit = 1
    /\ Len(keyOrder) = 2
    /\ Len(returned.list) = 1
    /\ returned.list[1].id = keyOrder[2]
    /\ episodes[keyOrder[2]].last_played_at > episodes[keyOrder[1]].last_played_at

\* C15: ticks are serialized, so at most one callback is between its fetch
\* and its reconciliation at any time.
C15_TicksSerialized == Len(inflight) <= 1

\* a tick whose fetch failed or one of whose localStorage accesses threw
FailingStep ==
    /\ TickStep
    /\ \/ lastOp'.status \in {"throw", "error"}
       \/ ~lastOp'.ok.end
       \/ ~lastOp'.ok.store

\* C16: a failing tick leaves the timer armed with its next firing time as it
\* was, and an armed timer is cleared by stopPlaybackTracking only.
C16_LoopStep ==
    /\ FailingStep => (pollingInterval' = pollingInterval /\ nextFire' = nextFire)
    /\ (pollingInterval # NoTimer /\ pollingInterval' = NoTimer)
           => lastOp'.op = "stop"

\* C16, of every step: no tick's failure ends the loop.
C16_LoopSurvivesFailure == [][C16_LoopStep]_vars

\* C16 witness: a tick whose fetch threw has just ended, the timer is armed
\* and due, so that the next callback can start.
C16_Witness ==
    /\ lastOp.op = "tick"
    /\ lastOp.status = "throw"
    /\ pollingInterval # NoTimer
    /\ now >= nextFire

\* C17: getValidToken returns the access token of a stored token that has
\* not expired; it returns a token whenever the stored token has not expired
\* or carries a refresh token the endpoint accepts; it fails only without a
\* stored token, without a refresh token, or when the refresh request fails.
C17_TokenStep ==
    lastOp'.op = "getValidToken" =>
        /\ tokenResult'.kind = "token" =>
               /\ storedToken' # NoToken
               /\ storedToken'[1].accessToken = tokenResult'.accessToken
               /\ now < storedToken'[1].expiresAt
        /\ (storedToken # NoToken /\ now < storedToken[1].expiresAt) =>
               tokenResult'.kind = "token"
        /\ tokenResult'.kind = "error" =>
               \/ storedToken = NoToken
               \/ storedToken[1].refreshToken = ""
               \/ ~tokenResult'.refreshOk

\* C17, of every step: the token provider refreshes an expired token.
C17_TokenProvider == [][C17_TokenStep]_vars

\* C18: updateSessionEnd for an id that has no open session (no record, a
\* record without sessions, or a last session that has ended) leaves the
\* whole ledger as it is, ended_at and total_played_ms included.
C18_NoOpenStep ==
    (lastOp'.op = "updateSessionEnd" /\ ~IsOpen(episodes, lastOp'.last))
        => episodes' = episodes

\* C18, of every step: closing without an open session is a no-op.
C18_CloseWithoutOpenIsNoOp == [][C18_NoOpenStep]_vars

\* C18 witness: updateSessionEnd has just been called with elapsed time, its
\* localStorage accesses succeeding, for an episode whose last session had
\* ended earlier.
C18_Witness ==
    /\ lastOp.op = "updateSessionEnd" /\ lastOp.ok.end /\ lastOp.elapsed > 0
    /\ lastOp.last \in DOMAIN episodes
    /\ LET rec == episodes[lastOp.last]
       IN  /\ Len(rec.sessions) > 0
           /\ rec.sessions[Len(rec.sessions)].ended_at # NoTime
           /\ rec.sessions[Len(rec.sessions)].ended_at < now

\* the tick observed nothing playing (204 or no item) or an item that is no
\* episode
EmptyOrOtherStep ==
    /\ TickStep
    /\ lastOp'.status \in {"204", "200"}
    /\ lastOp'.type # "episode"

\* C19: with X active and its session open, a tick that observes nothing or
\* an item that is no episode sets ended_at on that session, adds the elapsed
\* time to total_played_ms(X) up to the stored duration_ms, changes nothing
\* else in the ledger and leaves no episode active.
C19_CloseStep ==
    LET X == lastEpisodeId
    IN  (EmptyOrOtherStep /\ X # NULL /\ IsOpen(episodes, X)) =>
            LET old == episodes[X]
                n == Len(old.sessions)
            IN  /\ DOMAIN episodes' = DOMAIN episodes
                /\ episodes'[X] =
                       [old EXCEPT
                           !.sessions = [old.sessions EXCEPT ![n].ended_at = now],
                           !.total_played_ms =
                               Min(old.total_played_ms + lastOp'.elapsed,
                                   old.duration_ms)]
                /\ \A y \in DOMAIN episodes \ {X} : episodes'[y] = episodes[y]
                /\ lastEpisodeId' = NULL

\* C19, of every step: the tick closes the active episode's session.
C19_CloseOnEmptyOrOther == [][C19_CloseStep]_vars

\* C19 witness: a tick that observed a track has just closed the session of
\* the episode that was active, with elapsed time, another record being in
\* the ledger.
C19_Witness ==
    /\ lastOp.op = "tick" /\ lastOp.status = "200" /\ lastOp.type = "track"
    /\ lastOp.elapsed > 0
    /\ lastEpisodeId = NULL
    /\ lastOp.last \in DOMAIN episodes
    /\ Cardinality(DOMAIN episodes) = 2
    /\ LET rec == episodes[lastOp.last]
       IN  /\ rec.sessions[Len(rec.sessions)].ended_at = now
           /\ rec.total_played_ms > 0

\* C20: with X active and its session open, a tick that observes X playing
\* adds the elapsed time to total_played_ms(X) up to the stored duration_ms,
\* appends no session, keeps the session open and keeps X active.
C20_ExtendStep ==
    LET X == lastEpisodeId
    IN  (PlayingStep /\ lastOp'.id = X /\ IsOpen(episodes, X)) =>
            /\ X \in DOMAIN episodes'
            /\ episodes'[X].total_played_ms =
                   Min(episodes[X].total_played_ms + lastOp'.elapsed,
                       episodes[X].duration_ms)
            /\ Len(episodes'[X].sessions) = Len(episodes[X].sessions)
            /\ IsOpen(episodes', X)
            /\ lastEpisodeId' = X

\* C20, of every step: the tick extends the active episode's open session.
C20_ExtendOpenSession == [][C20_ExtendStep]_vars

---------------------------------------------------------------------------
(* C21..C30 *)

\* the number of sessions of x without ended_at
OpenCount(eps, x) ==
    Cardinality({i \in 1..Len(SessionsOf(eps, x)) :
                    SessionsOf(eps, x)[i].ended_at = NoTime})

\* the step creates the record of x or gives it a session
Opened(x) ==
    \/ x \notin DOMAIN episodes /\ x \in DOMAIN episodes'
    \/ Len(SessionsOf(episodes', x)) > Len(SessionsOf(episodes, x))
    \/ OpenCount(episodes', x) > OpenCount(episodes, x)

\* C21: a record is created or a session opened for x only by a tick that
\* observes x playing; with no active episode a tick that observes anything
\* else (nothing, a failed fetch, an item that is no episode, a paused
\* episode) leaves the ledger and the active episode as they are.
C21_OpenStep ==
    /\ \A x \in EpisodeIds : Opened(x) => (PlayingStep /\ lastOp'.id = x)
    /\ (TickStep /\ ~PlayingStep /\ lastEpisodeId = NULL) =>
           (episodes' = episodes /\ lastEpisodeId' = NULL)

\* C21, of every step: only a tick observing a playing episode opens a session.
C21_OnlyPlayingOpens == [][C21_OpenStep]_vars

\* C21 witness: with no episode active a tick has just observed, paused, an
\* episode whose record ends with a closed session, and none is open.
C21_Witness ==
    /\ lastOp.op = "tick" /\ lastOp.type = "episode" /\ ~lastOp.is_playing
    /\ lastOp.last = NULL
    /\ lastEpisodeId = NULL
    /\ lastOp.id \in DOMAIN episodes
    /\ OpenSessions(episodes) = {}

\* C22: every callback, before its fetch, takes now - lastPollTime as its
\* elapsed time and sets lastPollTime to now; nothing but a callback's start
\* and startPlaybackTracking changes lastPollTime, whatever the snapshot; the
\* continuation uses that elapsed time and adds at most that much to any
\* record's total_played_ms.
C22_PollStep ==
    /\ lastOp'.op = "fire" =>
           /\ lastPollTime' = now
           /\ lastOp'.elapsed = now - lastPollTime
           /\ inflight' = Append(inflight, now - lastPollTime)
    /\ lastOp'.op \notin {"fire", "start"} => lastPollTime' = lastPollTime
    /\ TickStep =>
           /\ \E i \in 1..Len(inflight) : inflight[i] = lastOp'.elapsed
           /\ \A x \in DOMAIN episodes' :
                  TotalOf(episodes', x) - TotalOf(episodes, x) <= lastOp'.elapsed

\* C22, of every step: the elapsed time of a tick is the time since the
\* callback before it.
C22_ElapsedSincePreviousTick == [][C22_PollStep]_vars

\* C22 witness: a callback has just started with one polling interval as its
\* elapsed time, no other callback pending, while the active episode, its
\* session open, was last stored two intervals ago (the tick in between
\* observed it paused).
C22_Witness ==
    /\ lastOp.op = "fire"
    /\ lastOp.elapsed = POLLING_INTERVAL_MS
    /\ Len(inflight) = 1
    /\ lastEpisodeId # NULL
    /\ IsOpen(episodes, lastEpisodeId)
    /\ now - episodes[lastEpisodeId].last_played_at = 2 * POLLING_INTERVAL_MS

\* the tick calls updateSessionEnd for the episode that is active
CloseCalled ==
    /\ TickStep
    /\ lastEpisodeId # NULL
    /\ lastOp'.type = "episode" => (lastOp'.is_playing /\ lastOp'.id # lastEpisodeId)

\* a localStorage write of the tick throws: that of storeEpisode, or that of
\* updateSessionEnd for a session that is open
WriteFailed ==
    \/ PlayingStep /\ ~lastOp'.ok.store
    \/ CloseCalled /\ IsOpen(episodes, lastEpisodeId) /\ ~lastOp'.ok.end

\* C23: a tick one of whose ledger writes fails leaves the stored ledger as
\* it was, while the active episode becomes what the snapshot makes it and
\* lastPollTime stays as the callback's start set it.
C23_WriteFailStep ==
    WriteFailed =>
        /\ episodes' = episodes
        /\ lastEpisodeId' = IF PlayingStep THEN lastOp'.id ELSE NULL
        /\ lastPollTime' = lastPollTime

\* C23, of every step: a failed write makes the tick a no-op for the ledger.
C23_FailedWriteKeepsLedger == [][C23_WriteFailStep]_vars

\* C24: when the record of X has an empty publisher and a tick observes X
\* playing with a publisher, the record takes that publisher.
C24_MergeStep ==
    \A X \in DOMAIN episodes :
        (PlayingStep /\ lastOp'.id = X /\ episodes[X].publisher = ""
            /\ lastOp'.publisher # "")
        => (X \in DOMAIN episodes' /\ episodes'[X].publisher = lastOp'.publisher)

\* C24, of every step: absent metadata is filled from a later snapshot.
C24_MetadataMerged == [][C24_MergeStep]_vars

\* C25: the sessions of every record are in non-decreasing started_at order.
C25_SessionsOrdered ==
    \A x \in DOMAIN episodes :
        \A i, j \in 1..Len(episodes[x].sessions) :
            i < j => episodes[x].sessions[i].started_at
                         <= episodes[x].sessions[j].started_at

\* C25 witness: a tick has just appended, to a record whose session had
\* ended, a session that started later than the first one.
C25_Witness ==
    /\ lastOp.op = "tick" /\ lastOp.type = "episode" /\ lastOp.is_playing
    /\ \E x \in DOMAIN episodes :
           /\ Len(episodes[x].sessions) >= 2
           /\ episodes[x].sessions[1].started_at < episodes[x].sessions[2].started_at

\* C26: a record of x appears only in a tick that observes x playing; no step
\* but clearStoredEpisodes removes a record, and that one removes them all.
C26_LifecycleStep ==
    /\ \A x \in EpisodeIds :
           (x \notin DOMAIN episodes /\ x \in DOMAIN episodes')
               => (PlayingStep /\ lastOp'.id = x)
    /\ lastOp'.op # "clear" => DOMAIN episodes \subseteq DOMAIN episodes'
    /\ lastOp'.op = "clear" => episodes' = NoEpisodes

\* C26, of every step: the set of stored ids grows until it is cleared.
C26_RecordsOnlyGrow == [][C26_LifecycleStep]_vars

\* C26 witness: a tick that observed nothing has just closed the session of
\* the active episode, whose record is still stored, next to another one.
C26_Witness ==
    /\ lastOp.op = "tick" /\ lastOp.status = "204"
    /\ lastOp.last \in DOMAIN episodes
    /\ ~IsOpen(episodes, lastOp.last)
    /\ Cardinality(DOMAIN episodes) = 2

\* C27: in every record (with a known duration) progress_ms of the record
\* and of each of its sessions lies between 0 and the record's duration_ms.
C27_ProgressWithinDuration ==
    \A x \in DOMAIN episodes :
        episodes[x].duration_ms # 0 =>
            /\ episodes[x].progress_ms \in 0..episodes[x].duration_ms
            /\ \A i \in 1..Len(episodes[x].sessions) :
                   episodes[x].sessions[i].progress_ms \in 0..episodes[x].duration_ms

RECURSIVE ListenedMinutes(_, _, _)
\* the whole minutes listened, summed over the episodes of `eps` whose show
\* is assigned to category c
ListenedMinutes(eps, asg, c) ==
    IF eps = <<>> THEN 0
    ELSE (IF GetCategoryForPodcast(asg, Head(eps).show_id) = c
          THEN Head(eps).total_played_ms \div MS_PER_MINUTE
          ELSE 0) + ListenedMinutes(Tail(eps), asg, c)

\* totalMinutes that `stats` reports for category c, 0 when it has no entry
ReportedMinutes(stats, c) ==
    LET at == {i \in 1..Len(stats) : stats[i].categoryId = c}
    IN  IF at = {} THEN 0 ELSE stats[CHOOSE i \in at : TRUE].totalMinutes

\* C28: the minutes that calculateStats reports for a category over all time
\* are the whole minutes listened (total_played_ms) of the episodes of that
\* category, and the total of getTotalListeningTime is their sum over the
\* categories.
C28_StatsAreTimeListened ==
    LET eps == statsReturned.input
    IN  /\ \A i \in 1..Len(CategoryIds) :
               ReportedMinutes(statsReturned.stats.allTime, CategoryIds[i])
                   = ListenedMinutes(eps, assignments, CategoryIds[i])
        /\ statsReturned.total.hours * 60 + statsReturned.total.minutes
               = ListenedMinutes(eps, assignments, CategoryIds[1])
                     + ListenedMinutes(eps, assignments, CategoryIds[2])

\* C29: while tracking is stopped no callback's continuation changes the
\* ledger or the active episode.
C29_StoppedStep ==
    (TickStep /\ pollingInterval = NoTimer) =>
        (episodes' = episodes /\ lastEpisodeId' = lastEpisodeId)

\* C29, of every step: after stopPlaybackTracking pending callbacks have no
\* effect.
C29_NoChangeAfterStop == [][C29_StoppedStep]_vars

\* what a call of start or stop may change besides lastOp
TrackingVars ==
    <<pollingInterval, nextFire, lastPollTime, lastEpisodeId, episodes, inflight>>

\* C30: startPlaybackTracking while the timer is armed changes nothing (no
\* new timer, lastPollTime and the active episode kept), and so does
\* stopPlaybackTracking while no timer is armed.
C30_IdempotentStep ==
    /\ (lastOp'.op = "start" /\ pollingInterval # NoTimer) => UNCHANGED TrackingVars
    /\ (lastOp'.op = "stop" /\ pollingInterval = NoTimer) => UNCHANGED TrackingVars

\* C30, of every step: a second start and a stop without tracking are no-ops.
C30_StartStopIdempotent == [][C30_IdempotentStep]_vars

\* C30 witness: startPlaybackTracking has just been called while an episode
\* was active, and it still is, lastPollTime being that of the last callback.
C30_Witness ==
    /\ lastOp.op = "start"
    /\ pollingInterval # NoTimer
    /\ lastEpisodeId # NULL
    /\ lastPollTime < now

---------------------------------------------------------------------------
(* C31..C35 *)

\* in every record of eps the sessions before the last have ended, and a
\* session that has ended did not end before it started
WellFormedSessions(eps) ==
    \A x \in DOMAIN eps :
        LET ss == eps[x].sessions
        IN  /\ \A i \in 1..(Len(ss) - 1) : ss[i].ended_at # NoTime
            /\ \A i \in 1..Len(ss) :
                   ss[i].ended_at # NoTime => ss[i].ended_at >= ss[i].started_at

\* C31: after every step only the last session of a record can be open and
\* every closed session has ended_at >= started_at; a step appends a session
\* to a record only when the record's last session had ended.
C31_SessionStep ==
    /\ WellFormedSessions(episodes')
    /\ \A x \in DOMAIN episodes :
           Len(SessionsOf(episodes', x)) > Len(episodes[x].sessions)
               => ~LastSessionOpen(episodes[x])

\* C31, of every step: only the last session of a record is ever open.
C31_OnlyLastSessionOpen == [][C31_SessionStep]_vars

\* C31 witness: a tick has just appended an open session to a record whose
\* first session has ended.
C31_Witness ==
    /\ lastOp.op = "tick" /\ lastOp.type = "episode" /\ lastOp.is_playing
    /\ lastOp.id \in DOMAIN episodes
    /\ LET ss == episodes[lastOp.id].sessions
       IN  /\ Len(ss) = 2
           /\ ss[1].ended_at # NoTime
           /\ ss[2].ended_at = NoTime
           /\ ss[2].started_at = now

\* C32: while the timer is armed (no write failing, the ledger never
\* cleared) the active episode has a record whose last session is open.
C32_ActiveIsOpen ==
    (pollingInterval # NoTimer /\ lastEpisodeId # NULL)
        => IsOpen(episodes, lastEpisodeId)

\* C32 witness: a callback has just made an episode active while another
\* callback is still pending, and a second record is in the ledger.
C32_Witness ==
    /\ lastOp.op = "tick"
    /\ pollingInterval # NoTimer
    /\ lastEpisodeId # NULL
    /\ lastOp.last # NULL /\ lastOp.last # lastEpisodeId
    /\ Len(inflight) >= 1
    /\ IsOpen(episodes, lastEpisodeId)

\* C33: with X active, a tick that observes another episode paused changes
\* neither the ledger (X's session, every total, no record for the other
\* episode) nor the active episode.
C33_PausedOtherStep ==
    (PausedStep /\ lastEpisodeId # NULL /\ lastOp'.id # lastEpisodeId) =>
        (episodes' = episodes /\ lastEpisodeId' = lastEpisodeId)

\* C33, of every step: a paused other episode is ignored.
C33_PausedOtherIsNoOp == [][C33_PausedOtherStep]_vars

\* C33 witness: a tick has just observed, paused, an episode without a
\* record while another episode was active; that one is still active, its
\* session open.
C33_Witness ==
    /\ lastOp.op = "tick" /\ lastOp.type = "episode" /\ ~lastOp.is_playing
    /\ lastOp.last # NULL /\ lastOp.id # lastOp.last
    /\ lastEpisodeId = lastOp.last
    /\ IsOpen(episodes, lastEpisodeId)
    /\ lastOp.id \notin DOMAIN episodes

\* C34: a start that arms the timer sets lastPollTime to the time of the
\* start and makes no episode active; no callback starts while the timer is
\* not armed; a callback's elapsed time is the time since lastPollTime, and
\* its continuation adds at most that much to any record.
C34_RestartStep ==
    /\ (lastOp'.op = "start" /\ pollingInterval = NoTimer) =>
           (lastPollTime' = now /\ lastEpisodeId' = NULL
               /\ nextFire' = now + POLLING_INTERVAL_MS)
    /\ lastOp'.op = "fire" =>
           (pollingInterval # NoTimer /\ lastOp'.elapsed = now - lastPollTime)
    /\ lastOp'.op \in {"stop", "clock"} => lastPollTime' = lastPollTime
    /\ TickStep =>
           \A x \in DOMAIN episodes' :
               TotalOf(episodes', x) - TotalOf(episodes, x) <= lastOp'.elapsed

\* C34, of every step: the time before a start is not in any elapsed time.
C34_StoppedTimeNotAttributed == [][C34_RestartStep]_vars

\* C34 witness: the first callback after a restart has just started with one
\* polling interval as its elapsed time, while a session that the stop left
\* open was last stored two intervals ago.
C34_Witness ==
    /\ lastOp.op = "fire"
    /\ lastOp.elapsed = POLLING_INTERVAL_MS
    /\ Len(inflight) = 1
    /\ lastEpisodeId = NULL
    /\ \E x \in DOMAIN episodes :
           /\ IsOpen(episodes, x)
           /\ now - episodes[x].last_played_at = 2 * POLLING_INTERVAL_MS

\* the categories that are stored
StoredCategories(cats) == {cats[i] : i \in 1..Len(cats)}

\* C35: after every call each podcast has at most one assignment;
\* getCategoryForPodcast gives the category of the podcast's latest
\* assignCategory until removeCategoryAssignment or deleteCategory removes
\* it; and every assignment names a stored category.
C35_AssignmentStep ==
    LET G(p) == GetCategoryForPodcast(assignments, p)
        Gn(p) == GetCategoryForPodcast(assignments', p)
    IN  /\ \A p \in ShowIds :
               Cardinality({i \in 1..Len(assignments') :
                               assignments'[i].podcastId = p}) <= 1
        /\ lastOp'.op = "assignCategory" =>
               \A p \in ShowIds :
                   Gn(p) = IF p = lastOp'.podcastId THEN lastOp'.categoryId ELSE G(p)
        /\ lastOp'.op = "removeCategoryAssignment" =>
               \A p \in ShowIds :
                   Gn(p) = IF p = lastOp'.podcastId THEN NULL ELSE G(p)
        /\ lastOp'.op = "deleteCategory" =>
               \A p \in ShowIds :
                   Gn(p) = IF G(p) = lastOp'.categoryId THEN NULL ELSE G(p)
        /\ lastOp'.op = "calculateStats" => assignments' = assignments
        /\ \A i \in 1..Len(assignments') :
               assignments'[i].categoryId \in StoredCategories(categories')

\* C35, of every step: the assignments stay a function into the stored
\* categories.
C35_AssignmentsConsistent == [][C35_AssignmentStep]_vars

====
